---- MODULE Spec2Model ----
(***************************************************************************)
(* Model of lib/generate-nginx-configs.py: NginxConfigGenerator renders    *)
(* one nginx config file per project of config/projects.yml and then       *)
(* validates the whole output directory.                                   *)
(*                                                                         *)
(* Text is modelled structurally: a file is a sequence of lines, a line is *)
(* a sequence of tokens (strings), and Python's substring test `in` is the *)
(* contiguous-subsequence test Contains.  Strings on which the code works  *)
(* character by character (str.replace, str.lower, the substring tests on  *)
(* container keys, file names) are sequences of one-character strings,     *)
(* obtained from the string literals of the inputs by the table Chars.     *)
(***************************************************************************)
EXTENDS Integers, Sequences, FiniteSets, TLC

\* ------------------------------------------------------------------------
\* Bounds of the model
\* ------------------------------------------------------------------------
\* Largest number of projects in the registry of the run model.
MaxProjects == 2
\* Largest number of invocations of the script in one behaviour.
MaxRuns == 2

\* ------------------------------------------------------------------------
\* Python values
\* ------------------------------------------------------------------------
\* A mapping (dict) is a record; a missing key is a missing field.
Has(d, key) == key \in DOMAIN d
\* dict.get(key, default)
Get(d, key, default) == IF Has(d, key) THEN d[key] ELSE default
\* The empty mapping {}.
EmptyDict == <<>>
\* A YAML scalar string and a YAML list of strings, kept apart so that
\* isinstance(v, list) can be decided.
Str(s) == [str |-> s]
List(l) == [list |-> l]
IsList(v) == Has(v, "list")
\* None, for the two container slots.
None == [none |-> TRUE]
Truthy(c) == ~Has(c, "none")

\* Python's `sub in s` on sequences (of tokens, or of characters).
Contains(sub, s) ==
  \E i \in 1..(Len(s) - Len(sub) + 1) : SubSeq(s, i, i + Len(sub) - 1) = sub

\* str.replace(old, ""): every non-overlapping occurrence, left to right.
RECURSIVE Replace(_, _)
Replace(s, old) ==
  IF Len(s) < Len(old) THEN s
  ELSE IF SubSeq(s, 1, Len(old)) = old
       THEN Replace(SubSeq(s, Len(old) + 1, Len(s)), old)
       ELSE <<Head(s)>> \o Replace(Tail(s), old)

\* Removal of a leading prefix only (what "stripping a www. prefix" means).
StripPrefix(s, prefix) ==
  IF Len(s) >= Len(prefix) /\ SubSeq(s, 1, Len(prefix)) = prefix
  THEN SubSeq(s, Len(prefix) + 1, Len(s))
  ELSE s

\* The characters of the string literals the inputs are built from.
Chars ==
  [s \in {"www.a.io", "a.io", "s.a.io", "mywww.b.io", "s.b.io", "c.io",
          "shop", "blog", "wiki", "idle", "beta", "bad", "half", "a.io.bak",
          "backend", "frontend", "web", "Api-Backend", "redis"} |->
     CASE s = "www.a.io"    -> <<"w", "w", "w", ".", "a", ".", "i", "o">>
       [] s = "a.io"        -> <<"a", ".", "i", "o">>
       [] s = "s.a.io"      -> <<"s", ".", "a", ".", "i", "o">>
       [] s = "mywww.b.io"  -> <<"m", "y", "w", "w", "w", ".", "b", ".", "i", "o">>
       [] s = "s.b.io"      -> <<"s", ".", "b", ".", "i", "o">>
       [] s = "c.io"        -> <<"c", ".", "i", "o">>
       [] s = "shop"        -> <<"s", "h", "o", "p">>
       [] s = "blog"        -> <<"b", "l", "o", "g">>
       [] s = "wiki"        -> <<"w", "i", "k", "i">>
       [] s = "idle"        -> <<"i", "d", "l", "e">>
       [] s = "beta"        -> <<"b", "e", "t", "a">>
       [] s = "bad"         -> <<"b", "a", "d">>
       [] s = "half"        -> <<"h", "a", "l", "f">>
       [] s = "a.io.bak"    -> <<"a", ".", "i", "o", ".", "b", "a", "k">>
       [] s = "backend"     -> <<"b", "a", "c", "k", "e", "n", "d">>
       [] s = "frontend"    -> <<"f", "r", "o", "n", "t", "e", "n", "d">>
       [] s = "web"         -> <<"w", "e", "b">>
       [] s = "Api-Backend" -> <<"A", "p", "i", "-", "B", "a", "c", "k", "e", "n", "d">>
       [] s = "redis"       -> <<"r", "e", "d", "i", "s">>]

\* str.lower() on characters.
LowerChar(c) == CASE c = "A" -> "a" [] c = "B" -> "b" [] OTHER -> c
Lower(s) == [i \in 1..Len(s) |-> LowerChar(s[i])]

\* str.upper() of the two environment names (line 99).
Upper(environment) ==
  CASE environment = "production" -> "PRODUCTION"
    [] environment = "staging" -> "STAGING"

\* The two marker texts of the validator (lines 266 and 288).
ReuseportMarker == <<"listen", "443", "quic", "reuseport">>
QuicMarker == <<"listen", "443", "quic">>
WwwDot == <<"w", "w", "w", ".">>
DotConf == <<".", "c", "o", "n", "f">>

\* ------------------------------------------------------------------------
\* generate_server_block (lines 47-198)
\* ------------------------------------------------------------------------
\* A call either returns or raises; `first` is self.is_first_server_block
\* as the call leaves it.
Returned(text, first) == [raised |-> FALSE, config |-> text, first |-> first]
Raised(first) == [raised |-> TRUE, config |-> <<>>, first |-> first]

\* domains[0] if isinstance(domains, list) else domains
PrimaryDomain(domains) == IF IsList(domains) THEN domains.list[1] ELSE domains.str
\* " ".join(domains) if isinstance(domains, list) else primary_domain
ServerNames(domains) == IF IsList(domains) THEN domains.list ELSE <<domains.str>>
\* domains[0] raises IndexError on an empty list
NoPrimary(domains) == IsList(domains) /\ Len(domains.list) = 0

\* The name a container gets in an environment (lines 70-72).
ContainerName(container_config, environment) ==
  IF environment = "staging"
  THEN <<container_config.name, "-staging">>
  ELSE <<container_config.name>>

\* The loop of lines 69-83 over containers.items(), from entry i on;
\* slots = [backend, frontend], a later match overwrites an earlier one.
RECURSIVE ClassifyFrom(_, _, _, _)
ClassifyFrom(containers, i, environment, slots) ==
  IF i > Len(containers) THEN slots
  ELSE LET c == containers[i]
           key == Lower(Chars[c.key])
           entry == [name |-> ContainerName(c, environment), port |-> c.port]
       IN IF Contains(Chars["backend"], key)
          THEN ClassifyFrom(containers, i + 1, environment,
                            [slots EXCEPT !.backend = entry])
          ELSE IF Contains(Chars["frontend"], key) \/ Contains(Chars["web"], key)
               THEN ClassifyFrom(containers, i + 1, environment,
                                 [slots EXCEPT !.frontend = entry])
               ELSE ClassifyFrom(containers, i + 1, environment, slots)

Classify(containers, environment) ==
  ClassifyFrom(containers, 1, environment, [backend |-> None, frontend |-> None])

\* "|".join(api_locations)
RECURSIVE JoinBar(_)
JoinBar(l) ==
  IF Len(l) = 0 THEN <<>>
  ELSE IF Len(l) = 1 THEN <<l[1]>>
       ELSE <<l[1], "|">> \o JoinBar(Tail(l))

\* Variant: only the first block gets a QUIC listener.
QuicListenerOnlyOnFirst(first) ==
  IF first
  THEN <<"listen", "443", "quic", "reuseport", ";", "#", "HTTP/3", "support",
         "(reuseport", "only", "on", "first", "block)">>
  ELSE <<"listen", "443", ";">>
\* Lines 90-95: the listener line of the block.
QuicListener(first) ==
  IF first
  THEN <<"listen", "443", "quic", "reuseport", ";", "#", "HTTP/3", "support",
         "(reuseport", "only", "on", "first", "block)">>
  ELSE <<"listen", "443", "quic", ";", "#", "HTTP/3", "support">>

\* Lines 119-145: the API section.
ApiBurst(rate_limit) == Get(rate_limit, "burst", 20)
ApiSection(backend_container, api_locations, rate_limit, nginx_config) ==
  << <<"#", "BACKEND", "ROUTES", "(API)">>,
     <<"location", "~", "^/(">> \o JoinBar(api_locations) \o <<")", "{">>,
     <<"limit_req", "zone=", "api", "burst=", ToString(ApiBurst(rate_limit)),
       "nodelay", ";">>,
     <<"set", "$backend_host">> \o backend_container.name \o <<";">>,
     <<"set", "$backend_port", ToString(backend_container.port), ";">>,
     <<"proxy_connect_timeout", Get(nginx_config, "proxy_connect_timeout", "60s"), ";">>,
     <<"proxy_send_timeout", Get(nginx_config, "proxy_timeout", "60s"), ";">>,
     <<"proxy_read_timeout", Get(nginx_config, "proxy_timeout", "60s"), ";">>,
     <<"}">> >>

\* Line 150: burst of the frontend section.
\* Variant: the frontend burst always follows the configuration.
FrontendBurstConfigured(backend_container, rate_limit) ==
  Get(rate_limit, "burst", 50)
FrontendBurst(backend_container, rate_limit) ==
  IF ~Truthy(backend_container) THEN Get(rate_limit, "burst", 50) ELSE 50

\* Lines 147-194: the frontend section, its fallback and the static assets.
FrontendSection(backend_container, frontend_container, rate_limit) ==
  << <<"#", "FRONTEND", "ROUTES">>,
     <<"location", "/", "{">>,
     <<"limit_req", "zone=", Get(rate_limit, "zone", "general"), "burst=",
       ToString(FrontendBurst(backend_container, rate_limit)), "nodelay", ";">>,
     <<"set", "$frontend_host">> \o frontend_container.name \o <<";">>,
     <<"set", "$frontend_port", ToString(frontend_container.port), ";">>,
     <<"error_page", "404", "=", "@frontend_fallback", ";">>,
     <<"}">>,
     <<"location", "@frontend_fallback", "{">>,
     <<"set", "$frontend_host">> \o frontend_container.name \o <<";">>,
     <<"}">>,
     <<"#", "STATIC", "ASSETS", "(with", "caching)">>,
     <<"location", "~*", "\\.(js|css|png|jpg|jpeg|gif|ico|svg|woff|woff2|ttf|eot)$", "{">>,
     <<"set", "$frontend_host">> \o frontend_container.name \o <<";">>,
     <<"proxy_cache_valid", "200", "7d", ";">>,
     <<"}">> >>

\* The block up to the logs (lines 98-117).
ServerHead(project_name, project, environment, domains, first) ==
  << <<"#", project.name, "-", Upper(environment)>>,
     <<"server", "{">>,
     <<"listen", "443", "ssl", ";">>,
     QuicListener(first),
     <<"http2", "on", ";">>,
     <<"server_name">> \o ServerNames(domains) \o <<";">>,
     <<"ssl_certificate", "/etc/letsencrypt/live/", PrimaryDomain(domains),
       "/fullchain.pem", ";">>,
     <<"ssl_certificate_key", "/etc/letsencrypt/live/", PrimaryDomain(domains),
       "/privkey.pem", ";">>,
     <<"access_log", "/var/log/nginx/", project_name, "-", environment,
       ".access.log", "detailed", ";">>,
     <<"error_log", "/var/log/nginx/", project_name, "-", environment,
       ".error.log", "warn", ";">> >>

\* Variant: the flag is not cleared by the block that uses it.
FlagNeverCleared(first) == first
\* Lines 92-95: the flag after the block has chosen its listener.
FlagAfterBlock(first) == FALSE

generate_server_block(project_name, project, environment, first) ==
  IF environment = "staging" /\ ~Has(project.domains.staging, "domains")
  THEN Raised(first)                                   \* KeyError, line 54
  ELSE
  LET domains == IF environment = "production"
                 THEN project.domains.production
                 ELSE project.domains.staging.domains
  IN IF NoPrimary(domains) THEN Raised(first)          \* IndexError, line 57
     ELSE IF ~Has(project, "containers") THEN Raised(first)  \* KeyError, line 63
     ELSE
     LET slots == Classify(project.containers, environment)
         nginx_config == Get(project, "nginx", EmptyDict)
         api_locations == Get(nginx_config, "api_locations", <<>>)
         rate_limit == Get(nginx_config, "rate_limit", EmptyDict)
         head == ServerHead(project_name, project, environment, domains, first)
         api == IF Truthy(slots.backend) /\ Len(api_locations) > 0
                THEN ApiSection(slots.backend, api_locations, rate_limit, nginx_config)
                ELSE <<>>
         front == IF Truthy(slots.frontend)
                  THEN FrontendSection(slots.backend, slots.frontend, rate_limit)
                  ELSE <<>>
     IN Returned(head \o api \o front \o << <<"}">> >>, FlagAfterBlock(first))

\* ------------------------------------------------------------------------
\* generate_http_redirect (lines 200-222)
\* ------------------------------------------------------------------------
generate_http_redirect(domains, primary_domain) ==
  << <<"#", "HTTP", "->", "HTTPS", "REDIRECT">>,
     <<"server", "{">>,
     <<"listen", "80", ";">>,
     <<"server_name">> \o ServerNames(domains) \o <<";">>,
     <<"location", "/.well-known/acme-challenge/", "{">>,
     <<"root", "/var/www/certbot", ";">>,
     <<"}">>,
     <<"location", "/", "{">>,
     <<"return", "301", "https://$host$request_uri", ";">>,
     <<"}">>,
     <<"}">>,
     <<>> >>

\* ------------------------------------------------------------------------
\* generate_project_config (lines 224-251)
\* ------------------------------------------------------------------------
Header(project) ==
  << <<"#", project.name, "-", "Nginx", "Configuration">>,
     <<"#", "AUTO-GENERATED", "from", "config/projects.yml">>,
     <<"#", "DO", "NOT", "EDIT", "MANUALLY">>,
     <<>> >>

\* Lines 235-241: the production environment, appended to `acc`.
ProductionPart(project_name, project, acc) ==
  IF ~Has(project.domains, "production") THEN acc
  ELSE LET prod_domains == project.domains.production
       IN IF NoPrimary(prod_domains) THEN Raised(acc.first)   \* line 237
          ELSE LET b == generate_server_block(project_name, project,
                                              "production", acc.first)
               IN IF b.raised THEN Raised(b.first)
                  ELSE Returned(acc.config
                                  \o generate_http_redirect(prod_domains,
                                                            PrimaryDomain(prod_domains))
                                  \o b.config \o << <<>> >>,
                                b.first)

\* Lines 244-249: the staging environment, appended to `acc`.
StagingPart(project_name, project, acc) ==
  IF acc.raised \/ ~Has(project.domains, "staging") THEN acc
  ELSE IF ~Has(project.domains.staging, "domains") THEN Raised(acc.first) \* line 245
  ELSE LET staging_domains == project.domains.staging.domains
       IN IF NoPrimary(staging_domains) THEN Raised(acc.first)  \* line 246
          ELSE LET b == generate_server_block(project_name, project,
                                              "staging", acc.first)
               IN IF b.raised THEN Raised(b.first)
                  ELSE Returned(acc.config
                                  \o generate_http_redirect(staging_domains,
                                                            PrimaryDomain(staging_domains))
                                  \o b.config,
                                b.first)

\* Variant: the staging environment is rendered first.
StagingBeforeProduction(project_name, project, first) ==
  IF ~Has(project, "domains") THEN Raised(first)
  ELSE LET s == StagingPart(project_name, project, Returned(Header(project), first))
       IN IF s.raised THEN s ELSE ProductionPart(project_name, project, s)

generate_project_config(project_name, project, first) ==
  IF ~Has(project, "domains") THEN Raised(first)        \* KeyError, line 235
  ELSE StagingPart(project_name, project,
         ProductionPart(project_name, project, Returned(Header(project), first)))

\* ------------------------------------------------------------------------
\* The registry: config/projects.yml (load_projects, lines 42-45)
\* ------------------------------------------------------------------------
Container(key, name, port) == [key |-> key, name |-> name, port |-> port]

\* Both environments, a list of production domains whose first entry starts
\* with "www.", both container kinds, API paths, a configured burst.
Shop ==
  [name |-> "Shop",
   domains |-> [production |-> List(<<"www.a.io", "a.io">>),
                staging |-> [domains |-> List(<<"s.a.io">>)]],
   containers |-> <<Container("Api-Backend", "shop-api", 8000),
                    Container("frontend", "shop-web", 80)>>,
   nginx |-> [api_locations |-> <<"api", "docs">>,
              rate_limit |-> [burst |-> 30]]]
\* Production only, a single domain, the same output file as Shop.
Blog ==
  [name |-> "Blog",
   domains |-> [production |-> Str("a.io")],
   containers |-> <<Container("web", "blog-web", 3000)>>]
\* Production only, "www." inside the primary domain, no frontend.
Wiki ==
  [name |-> "Wiki",
   domains |-> [production |-> Str("mywww.b.io")],
   containers |-> <<Container("backend", "wiki-api", 8080),
                    Container("redis", "wiki-cache", 6379)>>,
   nginx |-> [api_locations |-> <<"w">>]]
\* Neither environment.
Idle ==
  [name |-> "Idle", domains |-> EmptyDict, containers |-> <<>>]
\* Staging only.
Beta ==
  [name |-> "Beta",
   domains |-> [staging |-> [domains |-> Str("s.b.io")]],
   containers |-> <<Container("frontend", "beta-web", 80)>>]
\* No "domains" key: generate_project_config raises at once.
Bad ==
  [name |-> "Bad", containers |-> <<>>]
\* A staging mapping without "domains": the production block is rendered,
\* then the staging part raises.
Half ==
  [name |-> "Half",
   domains |-> [production |-> Str("c.io"), staging |-> EmptyDict],
   containers |-> <<Container("web", "half-web", 80)>>]

Entry(key, def) == [key |-> key, def |-> def]
Catalog ==
  <<Entry("shop", Shop), Entry("blog", Blog), Entry("wiki", Wiki),
    Entry("idle", Idle), Entry("beta", Beta), Entry("bad", Bad),
    Entry("half", Half)>>

\* The "projects" mappings of the run model: the ordered selections of at
\* most MaxProjects distinct catalog entries (a mapping has distinct keys).
Injective(s) == \A i, j \in 1..Len(s) : s[i] = s[j] => i = j
Registries ==
  UNION {{[i \in 1..n |-> Catalog[s[i]]] :
            s \in {t \in [1..n -> 1..Len(Catalog)] : Injective(t)}} :
         n \in 0..MaxProjects}

Keys(projects) == {projects[i].key : i \in 1..Len(projects)}
\* projects[key]
Lookup(projects, key) ==
  (CHOOSE i \in 1..Len(projects) : projects[i].key = key)

\* ------------------------------------------------------------------------
\* The command line (main, lines 379-394)
\* ------------------------------------------------------------------------
\* args.project: None when --project is absent, else the string given.
NoProject == [given |-> FALSE, name |-> ""]
Project(name) == [given |-> TRUE, name |-> name]
\* Python truthiness of specific_project: not None and not "".
Selecting(specific_project) == specific_project.given /\ specific_project.name # ""
ProjectArgs(reg) ==
  {NoProject, Project(""), Project("missing-project")} \cup {Project(k) : k \in Keys(reg)}

\* ------------------------------------------------------------------------
\* The output directory platform/nginx/conf.d
\* ------------------------------------------------------------------------
NoFiles == [f \in {} |-> <<>>]
FileName(stem) == stem \o DotConf
\* open(output_file, 'w'); f.write(config)
WriteFile(fs, output_file, config) ==
  [f \in DOMAIN fs \cup {output_file} |-> IF f = output_file THEN config ELSE fs[f]]

\* Directories the script may find: none; a left-over file that claims the
\* exclusive listener; a left-over file with the plain listener; a left-over
\* file with no listener; the file of an earlier run for Shop.
StaleName == FileName(Chars["a.io.bak"])
InitialDirs ==
  { [exists |-> FALSE, files |-> NoFiles],
    [exists |-> TRUE,
     files |-> WriteFile(NoFiles, StaleName,
                         generate_project_config("blog", Blog, TRUE).config)],
    [exists |-> TRUE,
     files |-> WriteFile(NoFiles, StaleName,
                         generate_project_config("blog", Blog, FALSE).config)],
    [exists |-> TRUE,
     files |-> WriteFile(NoFiles, StaleName, Header(Idle))],
    [exists |-> TRUE,
     files |-> WriteFile(NoFiles, FileName(Chars["a.io"]),
                         generate_project_config("shop", Shop, TRUE).config)] }

\* ------------------------------------------------------------------------
\* validate_generated_configs (lines 253-306)
\* ------------------------------------------------------------------------
\* Lines 259-268: the lines of all *.conf files that hold the marker.
ReuseportLocations(fs) ==
  {<<f, line_num>> \in UNION {{<<g, i>> : i \in 1..Len(fs[g])} : g \in DOMAIN fs} :
     Contains(ReuseportMarker, fs[f][line_num])}
reuseport_count(fs) == Cardinality(ReuseportLocations(fs))
\* "listen 443 quic" in content
HasQuic(content) == \E i \in 1..Len(content) : Contains(QuicMarker, content[i])
\* Lines 284-289
configs_without_http3(fs) == {f \in DOMAIN fs : ~HasQuic(fs[f])}

validate_generated_configs(fs) ==
  reuseport_count(fs) = 1 /\ configs_without_http3(fs) = {}

\* ------------------------------------------------------------------------
\* State
\* ------------------------------------------------------------------------
VARIABLES
  registry,                \* data["projects"], in mapping order
  dir_exists, files,       \* self.output_dir and its *.conf files
  dry_run, specific_project,  \* the arguments of this invocation
  is_first_server_block,   \* self.is_first_server_block
  pc,                      \* "main", "loop", "exit0", "exit1", "raised"
  projects, idx,           \* the selected projects and the loop position
  rendered,                \* history: configs rendered by this invocation
  written,                 \* history: files written by this invocation
  validated,               \* history: the validator ran in this invocation
  exists0, files0,         \* history: the directory when this invocation began
  run, prev,               \* history: invocation number, previous invocation
  pin, pout                \* input and result of the render model

vars == <<registry, dir_exists, files, dry_run, specific_project,
          is_first_server_block, pc, projects, idx, rendered, written,
          validated, exists0, files0, run, prev, pin, pout>>

NoPrev == [run |-> 0, pc |-> "main", files |-> NoFiles, before |-> NoFiles,
           written |-> <<>>]
NoInput == [key |-> "", def |-> EmptyDict, first |-> FALSE]
NoOutput == [done |-> FALSE, result |-> Raised(FALSE)]

Terminated == pc \in {"exit0", "exit1", "raised"}
\* The exit status of the process: sys.exit(1) and an uncaught exception
\* both give 1.
ExitCode == IF pc = "exit0" THEN 0 ELSE 1

\* NginxConfigGenerator.__init__ (lines 36-40)
InitFlag == TRUE

Init ==
  /\ registry \in Registries
  /\ \E d \in InitialDirs :
       /\ dir_exists = d.exists /\ files = d.files
       /\ exists0 = d.exists /\ files0 = d.files
  /\ dry_run \in BOOLEAN
  /\ specific_project \in ProjectArgs(registry)
  /\ is_first_server_block = InitFlag
  /\ pc = "main"
  /\ projects = <<>>
  /\ idx = 1
  /\ rendered = <<>>
  /\ written = <<>>
  /\ validated = FALSE
  /\ run = 1
  /\ prev = NoPrev
  /\ pin = NoInput
  /\ pout = NoOutput

\* ------------------------------------------------------------------------
\* generate_all (lines 308-377), one action per position of the method
\* ------------------------------------------------------------------------
runVars == <<run, prev, exists0, files0>>
renderVars == <<pin, pout>>

\* Lines 313-319: the selected projects.
Selected(reg, sp) ==
  IF Selecting(sp) THEN <<reg[Lookup(reg, sp.name)]>> ELSE reg

\* Line 313: the requested project is not in the registry.
NotFound(reg, sp) == Selecting(sp) /\ sp.name \notin Keys(reg)

\* Lines 310-319: load the registry, reject an unknown project, select.
Select ==
  /\ pc = "main"
  /\ IF NotFound(registry, specific_project)
     THEN /\ pc' = "exit1"                               \* sys.exit(1), line 315
          /\ UNCHANGED <<projects, idx>>
     ELSE /\ projects' = Selected(registry, specific_project)
          /\ idx' = 1
          /\ pc' = "loop"
  /\ UNCHANGED <<registry, dir_exists, files, dry_run, specific_project,
                 is_first_server_block, rendered, written, validated>>
  /\ UNCHANGED runVars
  /\ UNCHANGED renderVars

\* Lines 336-341: the output file name without its ".conf".
OutputStem(project_name, project) ==
  IF Has(project, "domains") /\ Has(project.domains, "production")
  THEN Replace(Chars[PrimaryDomain(project.domains.production)], WwwDot)
  ELSE Chars[project_name]
output_file(project_name, project) == FileName(OutputStem(project_name, project))

\* Variant: a project that fails to render is skipped.
SkipsFailedProject(r) == "loop"
\* Where the loop goes after generate_project_config: an exception is not
\* caught anywhere, so it ends the process.
AfterRender(r) == IF r.raised THEN "raised" ELSE "loop"

\* Lines 329-357: one iteration of the loop over projects.items().
LoopBody ==
  /\ pc = "loop"
  /\ idx <= Len(projects)
  /\ LET project_name == projects[idx].key
         project == projects[idx].def
         r == generate_project_config(project_name, project, is_first_server_block)
     IN /\ is_first_server_block' = r.first
        /\ pc' = AfterRender(r)
        /\ idx' = IF pc' = "loop" THEN idx + 1 ELSE idx   \* next iteration, if any
        /\ IF r.raised
           THEN UNCHANGED <<dir_exists, files, rendered, written>>
           ELSE LET out == output_file(project_name, project)
                    item == [key |-> project_name, file |-> out, config |-> r.config]
                IN /\ rendered' = Append(rendered, item)
                   /\ IF dry_run
                      THEN UNCHANGED <<dir_exists, files, written>>
                      ELSE /\ dir_exists' = TRUE              \* mkdir, line 351
                           /\ files' = WriteFile(files, out, r.config)
                           /\ written' = Append(written, item)
  /\ UNCHANGED <<registry, dry_run, specific_project, projects, validated>>
  /\ UNCHANGED runVars
  /\ UNCHANGED renderVars

\* Variant: the validator runs in dry-run mode too.
ValidatesAlways(dry, sp) == TRUE
\* Line 364: whether the validator runs after the loop.
Validates(dry, sp) == ~dry

\* Variant: a failed validation does not change the exit status.
ExitZeroAlways(passed) == "exit0"
\* Lines 374-377: the exit after validation.
AfterValidation(passed) == IF passed THEN "exit0" ELSE "exit1"

\* Lines 359-377: after the loop.
Finish ==
  /\ pc = "loop"
  /\ idx > Len(projects)
  /\ IF Validates(dry_run, specific_project)
     THEN /\ validated' = TRUE
          /\ pc' = AfterValidation(validate_generated_configs(files))
     ELSE /\ pc' = "exit0"
          /\ UNCHANGED validated
  /\ UNCHANGED <<registry, dir_exists, files, dry_run, specific_project,
                 is_first_server_block, projects, idx, rendered, written>>
  /\ UNCHANGED runVars
  /\ UNCHANGED renderVars

\* Variant: the flag survives from one invocation to the next.
KeepFlag(flag) == flag
\* The flag of a new process: __init__, line 40.
FreshFlag(flag) == InitFlag

\* The same command line is run again (main, lines 379-394) on the
\* directory the previous invocation left, with the registry unchanged.
Reinvoke ==
  /\ Terminated
  /\ run < MaxRuns
  /\ run' = run + 1
  /\ prev' = [run |-> run, pc |-> pc, files |-> files, before |-> files0,
              written |-> written]
  /\ exists0' = dir_exists
  /\ files0' = files
  /\ is_first_server_block' = FreshFlag(is_first_server_block)
  /\ pc' = "main"
  /\ projects' = <<>>
  /\ idx' = 1
  /\ rendered' = <<>>
  /\ written' = <<>>
  /\ validated' = FALSE
  /\ UNCHANGED <<registry, dir_exists, files, dry_run, specific_project>>
  /\ UNCHANGED renderVars

Next == Select \/ LoopBody \/ Finish \/ Reinvoke

Spec == Init /\ [][Next]_vars

\* ------------------------------------------------------------------------
\* The render model: generate_project_config as a function of its inputs
\* ------------------------------------------------------------------------
\* A mapping with an optional key.
Absent == [has |-> FALSE, v |-> EmptyDict]
Present(v) == [has |-> TRUE, v |-> v]
Field(key, o) == IF o.has THEN key :> o.v ELSE EmptyDict

DomainsOptions ==
  { Absent,
    Present(EmptyDict),
    Present([production |-> Str("a.io")]),
    Present([production |-> List(<<"www.a.io", "a.io">>)]),
    Present([staging |-> [domains |-> List(<<"s.a.io">>)]]),
    Present([production |-> Str("www.a.io"), staging |-> [domains |-> Str("s.a.io")]]),
    Present([production |-> Str("c.io"), staging |-> EmptyDict]) }
ContainersOptions ==
  { Absent,
    Present(<<>>),
    Present(<<Container("redis", "cache", 6379)>>),
    Present(<<Container("backend", "api", 8000)>>),
    Present(<<Container("web", "site", 80)>>),
    Present(<<Container("Api-Backend", "api", 8000), Container("frontend", "site", 80)>>),
    Present(<<Container("frontend", "site", 80), Container("backend", "api", 8000),
              Container("web", "site2", 81)>>) }
NginxOptions ==
  { Absent,
    Present(EmptyDict),
    Present([api_locations |-> <<>>, rate_limit |-> [burst |-> 30]]),
    Present([api_locations |-> <<"api">>]),
    Present([api_locations |-> <<"api", "docs">>, rate_limit |-> [burst |-> 30],
             proxy_timeout |-> "120s"]),
    Present([rate_limit |-> [burst |-> 5, zone |-> "api"]]) }

RenderInputs ==
  { [key |-> "shop",
     def |-> [name |-> "Shop"] @@ Field("domains", d) @@ Field("containers", c)
               @@ Field("nginx", n),
     first |-> f] :
      d \in DomainsOptions, c \in ContainersOptions, n \in NginxOptions, f \in BOOLEAN }

InitRender ==
  /\ registry = <<>>
  /\ dir_exists = FALSE
  /\ files = NoFiles
  /\ exists0 = FALSE
  /\ files0 = NoFiles
  /\ dry_run = TRUE
  /\ specific_project = NoProject
  /\ is_first_server_block = InitFlag
  /\ pc = "render"
  /\ projects = <<>>
  /\ idx = 1
  /\ rendered = <<>>
  /\ written = <<>>
  /\ validated = FALSE
  /\ run = 1
  /\ prev = NoPrev
  /\ pin \in RenderInputs
  /\ pout = NoOutput

\* One call of generate_project_config on the chosen input.
Render ==
  /\ pc = "render"
  /\ ~pout.done
  /\ pout' = [done |-> TRUE,
              result |-> generate_project_config(pin.key, pin.def, pin.first)]
  /\ UNCHANGED <<registry, dir_exists, files, dry_run, specific_project,
                 is_first_server_block, pc, projects, idx, rendered, written,
                 validated, exists0, files0, run, prev, pin>>

NextRender == Render

SpecRender == InitRender /\ [][NextRender]_vars

\* ------------------------------------------------------------------------
\* Vocabulary of the properties
\* ------------------------------------------------------------------------
\* A run without --dry-run over the whole registry.
FullRun == ~dry_run /\ ~Selecting(specific_project)
\* generate_all got past its loop.
Completed == pc \in {"exit0", "exit1"} /\ ~NotFound(registry, specific_project)
\* The definition of a project of the registry.
DefOf(key) == registry[Lookup(registry, key)].def
HasEnvironment(def) ==
  Has(def, "domains") /\ (Has(def.domains, "production") \/ Has(def.domains, "staging"))

\* The listener lines of the HTTPS blocks of a config, in order.
QuicLines(config) == SelectSeq(config, LAMBDA line : Contains(QuicMarker, line))
\* The listener lines of all HTTPS blocks of the given renders, in order.
RECURSIVE AllQuicLines(_)
AllQuicLines(items) ==
  IF Len(items) = 0 THEN <<>>
  ELSE QuicLines(Head(items).config) \o AllQuicLines(Tail(items))

\* The files this invocation wrote, and the marker lines in them.
WrittenNames == {written[i].file : i \in 1..Len(written)}
WrittenMarkerCount ==
  Cardinality({loc \in ReuseportLocations(files) : loc[1] \in WrittenNames})
\* The directory after the given writes, in order.
RECURSIVE AfterWrites(_, _)
AfterWrites(fs, items) ==
  IF Len(items) = 0 THEN fs
  ELSE AfterWrites(WriteFile(fs, Head(items).file, Head(items).config), Tail(items))

\* ------------------------------------------------------------------------
\* C1
\* ------------------------------------------------------------------------
\* C1 as stated, for the runs that render an HTTPS block at all: after a
\* full non-dry-run run the files the run generated hold the marker
\* "listen 443 quic reuseport" in exactly one place, the first HTTPS block
\* rendered, and every other HTTPS block has the plain listener.
C1_ExactlyOneMarker ==
  (FullRun /\ Completed /\ AllQuicLines(rendered) # <<>>) =>
    LET q == AllQuicLines(rendered)
    IN /\ WrittenMarkerCount = 1
       /\ \A k \in 1..Len(q) : Contains(ReuseportMarker, q[k]) <=> k = 1

\* C1 amended: in a full non-dry-run run the files the run generated hold
\* the marker in at most one place; of the HTTPS blocks the run rendered,
\* the first in iteration order is the only one with the marker, all others
\* have "listen 443 quic" without reuseport; and the marker is in exactly
\* one place exactly when some written file has an HTTPS block and the
\* first such file is not overwritten by a later project of the run.
C1_AtMostOneMarkerFirstBlock ==
  (FullRun /\ Terminated) =>
    LET q == AllQuicLines(rendered)
    IN /\ WrittenMarkerCount <= 1
       /\ \A k \in 1..Len(q) : Contains(ReuseportMarker, q[k]) <=> k = 1
       /\ WrittenMarkerCount = 1 <=>
            \E i \in 1..Len(written) :
              /\ QuicLines(written[i].config) # <<>>
              /\ \A j \in 1..(i - 1) : QuicLines(written[j].config) = <<>>
              /\ \A j \in (i + 1)..Len(written) : written[j].file # written[i].file

\* A full run that wrote two different files, each with an HTTPS block, and
\* left the marker in one place.
C1_Witness ==
  /\ FullRun /\ Completed
  /\ Len(written) = 2
  /\ written[1].file # written[2].file
  /\ QuicLines(written[1].config) # <<>>
  /\ QuicLines(written[2].config) # <<>>
  /\ WrittenMarkerCount = 1

\* ------------------------------------------------------------------------
\* C2
\* ------------------------------------------------------------------------
\* C2 as stated: every file written, for any project definition, contains
\* "listen 443 quic".
C2_EveryFileHasQuic ==
  \A i \in 1..Len(written) : HasQuic(written[i].config)

\* C2 amended: a written file contains "listen 443 quic" exactly when its
\* project has a production or a staging environment; the file of a project
\* with neither holds the header only.
C2_QuicIffEnvironment ==
  \A i \in 1..Len(written) :
    /\ HasQuic(written[i].config) <=> HasEnvironment(DefOf(written[i].key))
    /\ ~HasEnvironment(DefOf(written[i].key)) =>
         written[i].config = Header(DefOf(written[i].key))

\* One run wrote a file with the listener (a staging-only project) and a
\* file without it (a project with no environment).
C2_Witness ==
  \E i, j \in 1..Len(written) :
    /\ HasQuic(written[i].config)
    /\ ~Has(DefOf(written[i].key).domains, "production")
    /\ ~HasQuic(written[j].config)

\* ------------------------------------------------------------------------
\* C3
\* ------------------------------------------------------------------------
\* C3 as stated: with a --project name that is no key of the registry the
\* process exits non-zero, renders nothing, writes nothing, leaves the
\* output directory as it was and does not run the validator.
C3_UnknownProjectWritesNothing ==
  (specific_project.given /\ specific_project.name \notin Keys(registry)) =>
    /\ Terminated => pc = "exit1"
    /\ rendered = <<>>
    /\ written = <<>>
    /\ ~validated
    /\ files = files0
    /\ dir_exists = exists0

\* What the code does keep of C3: an unknown name other than the empty
\* string ends the process with exit status 1 before anything is rendered,
\* written or validated.
C3_NonEmptyUnknownProjectWritesNothing ==
  NotFound(registry, specific_project) =>
    /\ pc \in {"main", "exit1"}
    /\ rendered = <<>>
    /\ written = <<>>
    /\ ~validated
    /\ files = files0
    /\ dir_exists = exists0

\* ------------------------------------------------------------------------
\* C4
\* ------------------------------------------------------------------------
\* C4: a non-dry-run invocation that repeats the previous one (same
\* registry, same arguments, a fresh flag) writes the same files with the
\* same contents and leaves the directory as the previous one left it.
C4_Idempotent ==
  (run >= 2 /\ Terminated /\ ~dry_run) =>
    /\ written = prev.written
    /\ files = prev.files

\* A second run that rewrote two files which the first run had created or
\* changed.
C4_Witness ==
  /\ run = 2 /\ Terminated /\ ~dry_run
  /\ Len(written) >= 2
  /\ prev.before # prev.files
  /\ files = prev.files

\* ------------------------------------------------------------------------
\* C5
\* ------------------------------------------------------------------------
\* Rendering the project raises (whatever the flag is).
Fails(entry) == generate_project_config(entry.key, entry.def, TRUE).raised

\* C5 as stated: a failing project aborts the run, and a run leaves either
\* the files of all selected projects written or none of them.
C5_AllOrNothing ==
  (Terminated /\ ~NotFound(registry, specific_project)) =>
    /\ (\E i \in 1..Len(projects) : Fails(projects[i])) => pc = "raised"
    /\ written = <<>> \/ Len(written) = Len(projects)

\* C5 amended: a failing project aborts the run at that project: it and the
\* projects after it are neither rendered nor written, the validator is not
\* run and the exit is non-zero, while the files of the projects before it
\* have been written and stay written; a run that gets past its loop has
\* rendered every selected project.
C5_AbortsAtFirstFailure ==
  /\ pc = "raised" =>
       /\ idx \in 1..Len(projects)
       /\ Fails(projects[idx])
       /\ Len(rendered) = idx - 1
       /\ \A i \in 1..(idx - 1) : rendered[i].key = projects[i].key
       /\ written = (IF dry_run THEN <<>> ELSE rendered)
       /\ files = AfterWrites(files0, written)
       /\ ~validated
       /\ ExitCode # 0
  /\ Completed =>
       /\ Len(rendered) = Len(projects)
       /\ \A i \in 1..Len(projects) : ~Fails(projects[i])

\* An aborted run that left the file of an earlier project written.
C5_Witness ==
  /\ pc = "raised"
  /\ Len(written) >= 1
  /\ Len(written) < Len(projects)
  /\ files # files0

\* ------------------------------------------------------------------------
\* C6
\* ------------------------------------------------------------------------
\* C6 as stated: the validator runs only in a non-dry-run run over the
\* whole registry, never in a run restricted by --project, and only after
\* all files have been written.
C6_ValidatorOnlyAfterFullRun ==
  validated =>
    /\ ~dry_run
    /\ ~Selecting(specific_project)
    /\ idx > Len(projects) /\ Len(written) = Len(projects)

\* C6 amended: the validator runs after every non-dry-run run that gets
\* past its loop, a run restricted by --project included, never in dry-run
\* mode, and only after the files of all selected projects are written.
C6_ValidatorAfterEveryWritingRun ==
  /\ validated =>
       /\ ~dry_run
       /\ idx > Len(projects) /\ Len(written) = Len(projects)
  /\ (Completed /\ ~dry_run) => validated
  /\ (Completed /\ dry_run) => ~validated

\* The validator ran in a run restricted to one project.
C6_Witness ==
  /\ validated
  /\ Selecting(specific_project)
  /\ Len(written) = 1

\* ------------------------------------------------------------------------
\* C7
\* ------------------------------------------------------------------------
\* The validator's verdict on a directory, as the claim words it.
ValidatorFails(fs) ==
  \/ Cardinality(ReuseportLocations(fs)) # 1
  \/ \E f \in DOMAIN fs : ~HasQuic(fs[f])

\* C7 as stated: a non-dry-run run whose selection succeeds exits non-zero
\* exactly when the directory fails the validator's two checks, and the
\* files are as the run wrote them.
C7_ExitNonZeroIffValidatorFails ==
  (Terminated /\ ~dry_run /\ ~NotFound(registry, specific_project)) =>
    /\ ExitCode # 0 <=> ValidatorFails(files)
    /\ files = AfterWrites(files0, written)

\* C7 amended: such a run exits non-zero exactly when a selected project
\* fails to render (the exception ends the process before validation) or
\* the directory fails the validator's two checks; the files are as the
\* run wrote them.
C7_ExitNonZeroIffRaisedOrValidatorFails ==
  (Terminated /\ ~dry_run /\ ~NotFound(registry, specific_project)) =>
    /\ ExitCode # 0 <=>
         \/ \E i \in 1..Len(projects) : Fails(projects[i])
         \/ ValidatorFails(files)
    /\ files = AfterWrites(files0, written)

\* A run that wrote its one marker and still exits 1, because a file it
\* did not write holds the marker too; its files stay in place.
C7_Witness ==
  /\ validated /\ ExitCode = 1
  /\ written # <<>>
  /\ WrittenMarkerCount = 1
  /\ reuseport_count(files) = 2
  /\ files = AfterWrites(files0, written)

\* ------------------------------------------------------------------------
\* C9
\* ------------------------------------------------------------------------
\* C9 as stated: the output file is the production primary domain without
\* a leading "www." and otherwise unchanged, plus ".conf"; without a
\* production domain it is the project name plus ".conf".
C9_FileNameStripsLeadingWww ==
  \A i \in 1..Len(rendered) :
    LET def == DefOf(rendered[i].key)
    IN rendered[i].file =
         IF Has(def.domains, "production")
         THEN StripPrefix(Chars[PrimaryDomain(def.domains.production)], WwwDot)
                \o DotConf
         ELSE Chars[rendered[i].key] \o DotConf

\* ------------------------------------------------------------------------
\* C8
\* ------------------------------------------------------------------------
\* What a line says about the block structure: the start of a server
\* block, its kind (by its first listener), its server names, and, for an
\* HTTPS block, the environment of its access log.
LineTag(line) ==
  IF line = <<"server", "{">> THEN <<"server">>
  ELSE IF line = <<"listen", "80", ";">> THEN <<"redirect">>
  ELSE IF line = <<"listen", "443", "ssl", ";">> THEN <<"https">>
  ELSE IF Len(line) > 0 /\ line[1] = "server_name" THEN line
  ELSE IF Len(line) > 0 /\ line[1] = "access_log" THEN <<"log", line[5]>>
  ELSE <<>>
BlockTags(config) ==
  SelectSeq([i \in 1..Len(config) |-> LineTag(config[i])], LAMBDA t : t # <<>>)

\* One redirect block immediately followed by one HTTPS block.
EnvironmentTags(domains, environment) ==
  LET names == <<"server_name">> \o ServerNames(domains) \o <<";">>
  IN << <<"server">>, <<"redirect">>, names,
        <<"server">>, <<"https">>, names, <<"log", environment>> >>
ExpectedTags(def) ==
  (IF Has(def.domains, "production")
   THEN EnvironmentTags(def.domains.production, "production") ELSE <<>>)
  \o
  (IF Has(def.domains, "staging")
   THEN EnvironmentTags(def.domains.staging.domains, "staging") ELSE <<>>)

\* C8: the config generate_project_config returns holds, for each
\* environment of the definition, one redirect block immediately followed
\* by one HTTPS block, production before staging, and no other block (so a
\* production-only project has one of each and no staging log path).
C8_BlocksPerEnvironment ==
  (pout.done /\ ~pout.result.raised) =>
    BlockTags(pout.result.config) = ExpectedTags(pin.def)

\* A project with both environments was rendered.
C8_Witness ==
  /\ pout.done /\ ~pout.result.raised
  /\ Has(pin.def.domains, "production") /\ Has(pin.def.domains, "staging")
  /\ Len(BlockTags(pout.result.config)) = 14

\* ------------------------------------------------------------------------
\* C10
\* ------------------------------------------------------------------------
\* The burst tokens of the limit_req lines of the frontend sections
\* ("location / {") and of the API sections ("location ~ ^/(...) {").
FrontendBursts(config) ==
  {config[i + 1][5] :
     i \in {j \in 1..(Len(config) - 1) :
              /\ config[j] = <<"location", "/", "{">>
              /\ config[j + 1][1] = "limit_req"}}
ApiBursts(config) ==
  {config[i + 1][5] :
     i \in {j \in 1..(Len(config) - 1) :
              /\ Len(config[j]) >= 3
              /\ SubSeq(config[j], 1, 3) = <<"location", "~", "^/(">>}}
\* rate_limit of the definition, {} when not configured.
RateLimitOf(def) == Get(Get(def, "nginx", EmptyDict), "rate_limit", EmptyDict)
\* Some container key contains "backend", case-insensitively.
BackendRecognized(def) ==
  \E i \in 1..Len(def.containers) :
    Contains(Chars["backend"], Lower(Chars[def.containers[i].key]))

\* C10 as stated: the frontend burst is 50 when the API section is emitted
\* too, and the configured burst (default 50) when the frontend section is
\* emitted without an API section; the API burst is the configured burst
\* (default 20).
C10_FrontendBurstForcedWithApiSection ==
  (pout.done /\ ~pout.result.raised) =>
    LET config == pout.result.config
        rate_limit == RateLimitOf(pin.def)
    IN /\ (FrontendBursts(config) # {} /\ ApiBursts(config) # {}) =>
            FrontendBursts(config) = {"50"}
       /\ (FrontendBursts(config) # {} /\ ApiBursts(config) = {}) =>
            FrontendBursts(config) = {ToString(Get(rate_limit, "burst", 50))}
       /\ ApiBursts(config) # {} =>
            ApiBursts(config) = {ToString(Get(rate_limit, "burst", 20))}

\* C10 amended: the frontend burst is 50 whenever a backend container is
\* recognized, whether or not the API section is emitted (so also with an
\* empty api_locations list); it is the configured burst (default 50) only
\* when no backend container is recognized.  The API burst is the
\* configured burst (default 20).
C10_FrontendBurstForcedWithBackend ==
  (pout.done /\ ~pout.result.raised) =>
    LET config == pout.result.config
        rate_limit == RateLimitOf(pin.def)
    IN /\ FrontendBursts(config) # {} =>
            FrontendBursts(config) =
              {IF BackendRecognized(pin.def)
               THEN "50" ELSE ToString(Get(rate_limit, "burst", 50))}
       /\ ApiBursts(config) # {} =>
            ApiBursts(config) = {ToString(Get(rate_limit, "burst", 20))}

\* A frontend section without an API section, a recognized backend and a
\* configured burst of 30: the frontend burst is 50.
C10_Witness ==
  /\ pout.done /\ ~pout.result.raised
  /\ FrontendBursts(pout.result.config) = {"50"}
  /\ ApiBursts(pout.result.config) = {}
  /\ BackendRecognized(pin.def)
  /\ Get(RateLimitOf(pin.def), "burst", 50) = 30

====
